---- MODULE Spec2Model ----
(***************************************************************************)
(* Voice interaction concurrency core of yash_jarvis:                      *)
(*   core/listener.py      JarvisListener (capture callback, consumer      *)
(*                         loop, activation threads, command processing)   *)
(*   core/speech_engine.py JarvisVoice.speak (voice lock, SYSTEM_SPEAKING) *)
(*   core/sleep_manager.py SleepManager._loop, _do_sleep_procedure         *)
(*   core/command_handler.py  JarvisCommandHandler._ai_pipeline_worker     *)
(*                                                                         *)
(* Every Python thread is a process with a program counter; one action is  *)
(* one stretch of code between two accesses to shared state.  time.time()  *)
(* is the integer clock `now` (seconds).                                   *)
(***************************************************************************)
EXTENDS Integers, Sequences, FiniteSets, TLC

VARIABLES
    now,                      \* time.time()
    audio_queue,              \* listener._audio_queue
    captured,                 \* number of utterances the capture backend delivered
    SYSTEM_SPEAKING,          \* state.SYSTEM_SPEAKING
    voice_lock,               \* JarvisVoice.lock (holder)
    active_mode,              \* listener.active_mode
    listening,                \* listener.listening
    last_active_command_ts,   \* listener._last_active_command_ts
    active_mode_lock,         \* listener._active_mode_lock (holder)
    last_wake_ts,             \* listener._last_wake_ts
    MODE,                     \* state.MODE
    LAST_INTERACTION,         \* state.LAST_INTERACTION
    running,                  \* listener.running
    ai_lock,                  \* handler._ai_lock (holder)
    th,                       \* per thread: pc, return address of speak, locals
    device,                   \* outcome of opening the microphone and starting capture
    energy_threshold,         \* listener.recognizer.energy_threshold
    handled,                  \* history: utterances whose recognition attempt ended, in order
    lastAccept,               \* history: time of the last accepted wake detection
    rec,                      \* the call of _recognize_from_audio that is followed step by step
    wk                        \* the wake-phrase removal that is followed step by step

vars == <<now, audio_queue, captured, SYSTEM_SPEAKING, voice_lock, active_mode,
          listening, last_active_command_ts, active_mode_lock, last_wake_ts,
          MODE, LAST_INTERACTION, running, ai_lock, th, device, energy_threshold,
          handled, lastAccept, rec, wk>>

----------------------------------------------------------------------------
(* Program constants *)

QUEUE_MAXSIZE == 30
ENERGY_THRESHOLD == 300
ACTIVE_INACTIVITY_DEFAULT == 20
WAKE_DEBOUNCE_SECONDS == 1
SLEEP_TIMEOUT == 120
SHORT_TEXT_TIMEOUT == 6
None == -1

(* Bounds of the model *)

\* Utterances the capture backend delivers: in Spec, and in SpecListen.
MaxUtter == 2
MaxListenUtter == 3
\* Utterances the capture backend delivers in SpecQueue.
MaxQueueUtter == 32
\* Seconds of clock after the start of the process.
Horizon == 150
\* Chunks of sound without speech waiting in the queue.
MaxPending == 1

\* The process starts long after the epoch: the initial stamps 0.0 are older
\* than every timeout.
BootTime == SLEEP_TIMEOUT + ACTIVE_INACTIVITY_DEFAULT + WAKE_DEBOUNCE_SECONDS
MaxTime == BootTime + Horizon

----------------------------------------------------------------------------
(* Threads *)

Consumer == <<"consumer", 0>>
SleepMgr == <<"sleepmgr", 0>>
NoThread == <<"nobody", 0>>
\* Every utterance starts at most one activation thread and one AI worker.
MaxThreads == IF MaxUtter > MaxListenUtter THEN MaxUtter ELSE MaxListenUtter
ActThreads == {<<"act", i>> : i \in 1..MaxThreads}
AiThreads == {<<"ai", i>> : i \in 1..MaxThreads}
CmdThreads == {Consumer} \cup ActThreads
Threads == {Consumer, SleepMgr} \cup ActThreads \cup AiThreads

(* Recognised texts, by what the code does with them: whether the text holds *)
(* a wake phrase, and the class of the command words in it.                  *)
(*   "none"  no command words                                               *)
(*   "say"   a command answered with one spoken line (open/tab/media/...)    *)
(*   "type"  "type" without text: asks "What should I type?" and listens     *)
(*   "ask"   anything else: handler.process starts an AI worker thread       *)
CmdClasses == {"none", "say", "type", "ask"}
Texts == {[wake |-> w, cmd |-> c] : w \in BOOLEAN, c \in CmdClasses}
             \ {[wake |-> FALSE, cmd |-> "none"]}
WakeOnly == [wake |-> TRUE, cmd |-> "none"]     \* "hey jarvis"
WakeSay == [wake |-> TRUE, cmd |-> "say"]       \* "jarvis open notepad"
WakeType == [wake |-> TRUE, cmd |-> "type"]     \* "jarvis type"
Say == [wake |-> FALSE, cmd |-> "say"]          \* "open notepad"
NoText == [wake |-> FALSE, cmd |-> "none"]
NoAudio == [id |-> 0, text |-> NoText, spk |-> FALSE]

\* No call of _recognize_from_audio, no wake-phrase removal is followed.
NoCall == [pc |-> "idle", audio |-> NoAudio, retries |-> 0, log |-> <<>>, result |-> "none"]
NoRemoval == [pc |-> "idle", heard |-> <<>>, cleaned |-> <<>>, i |-> 0]

Fresh(p) == [pc |-> p, ret |-> "none", audio |-> NoAudio, cmd |-> "none", deadline |-> 0,
             stamp |-> 0]

\* Program points at which a thread holds no locals.
IsHome(p) == p \in {"c_get", "a_wait", "a_unlock", "m_check", "w_li", "free", "done"}

\* th with thread t moved to program point p.
At(f, t, p) == [f EXCEPT ![t] = IF IsHome(p) THEN Fresh(p) ELSE [@ EXCEPT !.pc = p, !.ret = "none"]]

\* th with thread t calling speak(), to continue at r.
CallSpeak(f, t, r) == [f EXCEPT ![t] = [@ EXCEPT !.pc = "sp_acq", !.ret = r]]

\* listener._is_speaking is written only by set_speaking, which is reached only
\* through speech_engine.LISTENER_HOOK; no code registers the hook.
is_speaking == FALSE

\* What the capture device does at construction: "capturing", the
\* microphone opened and listen_in_background started; "no_capture",
\* listen_in_background raised (lines 172-182) and the listener runs without
\* its capture thread; "no_listener", sr.Microphone() raised (lines 122-126),
\* __init__ raised again and jarvis_startup went on without a listener
\* (main.py lines 275-281).
DeviceOutcomes == {"capturing", "no_capture", "no_listener"}

\* The state after jarvis_startup called JarvisListener() with device
\* outcome d.
Constructed(d) ==
    /\ device = d
    /\ energy_threshold = ENERGY_THRESHOLD
    /\ now = BootTime
    /\ audio_queue = <<>>
    /\ captured = 0
    /\ SYSTEM_SPEAKING = FALSE
    /\ voice_lock = NoThread
    /\ active_mode = FALSE
    /\ listening = FALSE
    /\ last_active_command_ts = 0
    /\ active_mode_lock = NoThread
    /\ last_wake_ts = 0
    /\ MODE = "active"
    /\ LAST_INTERACTION = None
    /\ running = (d # "no_listener")
    /\ ai_lock = NoThread
    /\ th = [t \in Threads |->
               IF d = "no_listener" THEN Fresh("free")
               ELSE IF t = Consumer THEN Fresh("c_get")
               ELSE IF t = SleepMgr THEN Fresh("m_check")
               ELSE Fresh("free")]
    /\ handled = <<>>
    /\ lastAccept = None
    /\ rec = NoCall
    /\ wk = NoRemoval

\* The state after a construction in which the device worked.
Init == Constructed("capturing")

\* The state after a construction with any outcome of the device.
InitDevice == \E d \in DeviceOutcomes : Constructed(d)

----------------------------------------------------------------------------
(* Environment: the capture backend and the clock *)

\* A put that appends to a full queue.  C11_QueueBounded does not hold of it.
PutUnbounded(q, a) == Append(q, a)

\* Queue.put_nowait and the except clause around it (lines 223-226): queue q
\* after the put of a; a full queue raises Full and a is dropped.
PutNowait(q, a) == IF Len(q) < QUEUE_MAXSIZE THEN Append(q, a) ELSE q

\* _background_callback: put_nowait, a full queue drops the utterance.  The
\* backend delivers at most max utterances.
\* A capture thread that runs whatever the device did.  C27_NoListening does
\* not hold of it.
CapturingAlways == TRUE

\* lines 173-177: the capture thread that calls _background_callback exists
\* only when listen_in_background returned.
Capturing == device = "capturing"

BackgroundCallback(text, max) ==
    /\ Capturing
    /\ running
    /\ captured < max
    /\ captured' = captured + 1
    /\ audio_queue' = PutNowait(audio_queue,
                                [id |-> captured + 1, text |-> text,
                                 spk |-> SYSTEM_SPEAKING \/ is_speaking])
    /\ UNCHANGED <<now, SYSTEM_SPEAKING, voice_lock, active_mode, listening,
                   last_active_command_ts, active_mode_lock, last_wake_ts, MODE,
                   LAST_INTERACTION, running, ai_lock, th, handled, lastAccept,
                   device, energy_threshold, rec, wk>>

\* _background_callback called with sound that holds no speech, as often as
\* the backend hears some: the queue holds up to MaxPending chunks of it.
NoiseCallback ==
    /\ Capturing
    /\ running
    /\ Len(audio_queue) < MaxPending
    /\ audio_queue' = PutNowait(audio_queue,
                                [id |-> 0, text |-> NoText,
                                 spk |-> SYSTEM_SPEAKING \/ is_speaking])
    /\ UNCHANGED <<now, captured, SYSTEM_SPEAKING, voice_lock, active_mode,
                   listening, last_active_command_ts, active_mode_lock,
                   last_wake_ts, MODE, LAST_INTERACTION, running, ai_lock, th,
                   handled, lastAccept, device, energy_threshold, rec, wk>>

\* The instants at which a time comparison of the code changes its value:
\* the end of the debounce window (line 276), of the session's inactivity
\* window (line 243), of the sleep timeout (sleep_manager.py line 148) and
\* of the deadline of _listen_for_short_text (line 479).
DebouncePoints == {last_wake_ts + WAKE_DEBOUNCE_SECONDS}
SessionPoints ==
    IF active_mode THEN {last_active_command_ts + ACTIVE_INACTIVITY_DEFAULT + 1} ELSE {}
SleepPoints ==
    IF LAST_INTERACTION # None /\ MODE # "sleep"
    THEN {LAST_INTERACTION + SLEEP_TIMEOUT} ELSE {}
DeadlinePoints ==
    {th[t].deadline : t \in {u \in CmdThreads : th[u].pc \in {"l_get", "l_rec"}}}

\* Time passes, up to one of the instants P.
Tick(P) ==
    /\ \E t \in P : t > now /\ t <= MaxTime /\ now' = t
    /\ UNCHANGED <<audio_queue, captured, SYSTEM_SPEAKING, voice_lock,
                   active_mode, listening, last_active_command_ts,
                   active_mode_lock, last_wake_ts, MODE, LAST_INTERACTION,
                   running, ai_lock, th, handled, lastAccept, device,
                   energy_threshold, rec, wk>>

----------------------------------------------------------------------------
(* JarvisVoice.speak, reached through speech_engine.speak, which swallows   *)
(* every exception: the caller always continues at its return address.      *)

\* speech_engine.py line 23: LISTENER_HOOK is None, and no code calls
\* register_listener_hook.
HookRegistered == FALSE

\* speech_engine.py lines 152-156 and 173-177, listener.py lines 766-770:
\* the energy threshold after speak told the listener that speaking starts
\* or ends; set_speaking is called only through the hook.
ThresholdAfter(speaking) ==
    IF HookRegistered
    THEN IF speaking THEN ENERGY_THRESHOLD * 3 ELSE ENERGY_THRESHOLD
    ELSE energy_threshold

\* A speak that does not wait for the voice lock.  C32_FlagWhilePlaying does
\* not hold of it.
VoiceLockIgnored == TRUE

\* speech_engine.py line 146: `with self.lock` of the one JarvisVoice
\* instance (line 181) waits until no thread holds the lock.
VoiceLockFree == voice_lock = NoThread

\* speak, lines 146-156: take the voice lock and raise the flag.
SpeakAcquire(t) ==
    /\ th[t].pc = "sp_acq"
    /\ VoiceLockFree
    /\ voice_lock' = t
    /\ SYSTEM_SPEAKING' = TRUE
    /\ energy_threshold' = ThresholdAfter(TRUE)
    /\ th' = [th EXCEPT ![t].pc = "sp_play"]
    /\ UNCHANGED <<now, audio_queue, captured, active_mode, listening,
                   last_active_command_ts, active_mode_lock, last_wake_ts, MODE,
                   LAST_INTERACTION, running, ai_lock, handled, lastAccept,
                   device, rec, wk>>

\* speak, lines 146-148: the mixer raises before the flag is set; the with
\* statement releases the lock and speech_engine.speak swallows the exception.
SpeakAbort(t) ==
    /\ th[t].pc = "sp_acq"
    /\ VoiceLockFree
    /\ th' = At(th, t, th[t].ret)
    /\ UNCHANGED <<now, audio_queue, captured, SYSTEM_SPEAKING, voice_lock,
                   active_mode, listening, last_active_command_ts,
                   active_mode_lock, last_wake_ts, MODE, LAST_INTERACTION,
                   running, ai_lock, handled, lastAccept, device,
                   energy_threshold, rec, wk>>

\* The ways the try block of speak (lines 158-166) is left:
\*   "ok"         neural TTS played, return inside the try
\*   "fallback"   neural TTS failed or is disabled, offline fallback ran
\*   "exception"  an exception leaves the try block
SpeakExits == {"ok", "fallback", "exception"}

\* A speak whose reset is not in a finally block: the exception path leaves
\* the flag set.  C3_FlagClearedOnExit does not hold of it.
FlagAfterSpeakNoFinally(o) == o = "exception"

\* The value of SYSTEM_SPEAKING when speak is left by exit o: the finally
\* block (lines 168-172) runs on every exit.
FlagAfterSpeak(o) == FALSE

\* speak, lines 158-177: playback ends, the flag is lowered, the lock released.
SpeakFinally(t) ==
    /\ th[t].pc = "sp_play"
    /\ \E o \in SpeakExits : SYSTEM_SPEAKING' = FlagAfterSpeak(o)
    /\ energy_threshold' = ThresholdAfter(FALSE)
    /\ voice_lock' = NoThread
    /\ th' = At(th, t, th[t].ret)
    /\ UNCHANGED <<now, audio_queue, captured, active_mode, listening,
                   last_active_command_ts, active_mode_lock, last_wake_ts, MODE,
                   LAST_INTERACTION, running, ai_lock, handled, lastAccept,
                   device, rec, wk>>

----------------------------------------------------------------------------
(* Thread start *)

LowestFree(S) ==
    CHOOSE t \in S : th[t].pc = "free" /\ \A u \in S : th[u].pc = "free" => t[2] <= u[2]

\* Where _process_command returns to: the consumer loop, the activation
\* thread's wait loop, or (called under _active_mode_lock, line 323) the
\* end of the with block.
RetTarget(t) ==
    IF t = Consumer THEN "c_get"
    ELSE IF active_mode_lock = t THEN "a_unlock" ELSE "a_wait"

----------------------------------------------------------------------------
(* JarvisListener._audio_consumer_loop *)

\* _recognize_from_audio, lines 300-314: what the recognizer finds in an
\* utterance.  "none": no match, a service error or an exception (the
\* wrapper returns None); "empty", "blank": a transcript that is empty or
\* holds only whitespace; "text": a transcript with words in it, the words
\* being the utterance's text.
RecognitionResults == {"none", "empty", "blank", "text"}

\* A wrapper that returns the transcript as it is.  C18_NoTextNoEffect does
\* not hold of it.
StripNothing(res) == res

\* line 304: .lower().strip() of the transcript.
Strip(res) == IF res = "blank" THEN "empty" ELSE res

\* lines 258 and 486: the truth value of the wrapper's result.
HasText(res) == Strip(res) \notin {"none", "empty"}

\* The outcome the history records for result res of the recognizer: what
\* the recognizer found when it found no words, else what was done with the
\* text, o.
Outcome(res, o) ==
    IF res = "none" THEN "nothing"
    ELSE IF res \in {"empty", "blank"} THEN "blank"
    ELSE o

\* The history after the recognition of utterance a ended, at the present
\* time, with outcome o.  Sound without speech (id 0) is not an utterance and
\* leaves no entry.
Handled(a, o) ==
    IF a.id = 0 THEN handled
    ELSE Append(handled, [id |-> a.id, as |-> o, at |-> now])

\* line 236: the loop ends when running is false.
ConsumerStop ==
    /\ th[Consumer].pc = "c_get"
    /\ ~running
    /\ th' = At(th, Consumer, "done")
    /\ UNCHANGED <<now, audio_queue, captured, SYSTEM_SPEAKING, voice_lock,
                   active_mode, listening, last_active_command_ts,
                   active_mode_lock, last_wake_ts, MODE, LAST_INTERACTION,
                   running, ai_lock, handled, lastAccept, device,
                   energy_threshold, rec, wk>>

\* line 249: the dequeue-time test of the speaking flags.
SpeakingNow == SYSTEM_SPEAKING \/ is_speaking

\* lines 238 and 249-254: an utterance is taken from the queue; it is dropped
\* when a speaking flag is set and handed to _recognize_from_audio otherwise.
ConsumerGet ==
    /\ th[Consumer].pc = "c_get"
    /\ running
    /\ audio_queue # <<>>
    /\ audio_queue' = Tail(audio_queue)
    /\ IF SpeakingNow
       THEN UNCHANGED th
       ELSE th' = [th EXCEPT ![Consumer].pc = "c_rec", ![Consumer].audio = Head(audio_queue)]
    /\ UNCHANGED <<now, captured, SYSTEM_SPEAKING, voice_lock, active_mode,
                   listening, last_active_command_ts, active_mode_lock,
                   last_wake_ts, MODE, LAST_INTERACTION, running, ai_lock,
                   handled, lastAccept, device, energy_threshold, rec, wk>>

\* A consumer without the inactivity check.  C8_SessionEnds does not hold of it.
SessionNeverExpires == FALSE

\* lines 239-246: the queue wait timed out; the session's inactivity is checked.
SessionExpired == active_mode /\ now - last_active_command_ts > ACTIVE_INACTIVITY_DEFAULT

ConsumerEmpty ==
    /\ th[Consumer].pc = "c_get"
    /\ running
    /\ audio_queue = <<>>
    /\ SessionExpired
    /\ th' = [th EXCEPT ![Consumer].pc = "c_exit"]
    /\ UNCHANGED <<now, audio_queue, captured, SYSTEM_SPEAKING, voice_lock,
                   active_mode, listening, last_active_command_ts,
                   active_mode_lock, last_wake_ts, MODE, LAST_INTERACTION,
                   running, ai_lock, handled, lastAccept, device,
                   energy_threshold, rec, wk>>

\* _exit_active_mode, lines 378-387, under _active_mode_lock.
ExitActiveMode ==
    /\ th[Consumer].pc = "c_exit"
    /\ active_mode_lock = NoThread
    /\ IF active_mode
       THEN /\ listening' = FALSE
            /\ active_mode' = FALSE
            /\ LAST_INTERACTION' = now
       ELSE UNCHANGED <<listening, active_mode, LAST_INTERACTION>>
    /\ th' = At(th, Consumer, "c_get")
    /\ UNCHANGED <<now, audio_queue, captured, SYSTEM_SPEAKING, voice_lock,
                   last_active_command_ts, active_mode_lock, last_wake_ts, MODE,
                   running, ai_lock, handled, lastAccept, device,
                   energy_threshold, rec, wk>>

\* The command class of a whole text processed in an active session (line 268):
\* with a wake phrase in it, "type" finds the wake phrase as the text to type
\* and bare wake words fall through to handler.process.
ActiveClass(text) ==
    IF ~text.wake THEN text.cmd
    ELSE IF text.cmd = "type" THEN "typetext"
    ELSE IF text.cmd = "none" THEN "ask"
    ELSE text.cmd

\* A consumer without the debounce test.  C5_Debounce does not hold of it.
DebouncedNever == FALSE

\* lines 276-278: the debounce test of a wake detection at time `now`.
Debounced == now - last_wake_ts < WAKE_DEBOUNCE_SECONDS

\* A consumer that starts the activation thread without looking at MODE.
\* C16_WakeBeforeSession does not hold of it.
SleepingAtWakeNever == FALSE

\* line 285: the test that sends an accepted detection through
\* _wake_from_sleep first.
SleepingAtWake == MODE = "sleep"

\* lines 254-297: recognition returns nothing (no match, service error, empty
\* text) and the utterance is dropped, or it returns the text, which is routed.
ConsumerRecognizedAs(res) ==
    /\ th[Consumer].pc = "c_rec"
    /\ LET audio == th[Consumer].audio
           text == audio.text IN
       IF ~HasText(res)
       THEN /\ th' = At(th, Consumer, "c_get")
            /\ handled' = Handled(audio, Outcome(res, "nothing"))
            /\ UNCHANGED <<last_active_command_ts, last_wake_ts, lastAccept>>
       ELSE IF active_mode
       THEN \* lines 265-271; line 266 reads the clock and stores the reading,
            \* and the thread may be pre-empted between the two
            /\ \E preempted \in BOOLEAN :
                 IF preempted
                 THEN /\ th' = [th EXCEPT ![Consumer].pc = "c_store",
                                          ![Consumer].cmd = ActiveClass(text),
                                          ![Consumer].audio = NoAudio,
                                          ![Consumer].stamp = now]
                      /\ UNCHANGED last_active_command_ts
                 ELSE /\ last_active_command_ts' = now
                      /\ th' = [th EXCEPT ![Consumer].pc = "p_start",
                                          ![Consumer].cmd = ActiveClass(text),
                                          ![Consumer].audio = NoAudio]
            /\ handled' = Handled(audio, Outcome(res, "command"))
            /\ UNCHANGED <<last_wake_ts, lastAccept>>
       ELSE IF ~text.wake
       THEN \* line 274: no wake phrase in wake mode
            /\ th' = At(th, Consumer, "c_get")
            /\ handled' = Handled(audio, Outcome(res, "ignored"))
            /\ UNCHANGED <<last_active_command_ts, last_wake_ts, lastAccept>>
       ELSE IF Debounced
       THEN \* lines 276-278: a detection inside the debounce window
            /\ th' = At(th, Consumer, "c_get")
            /\ handled' = Handled(audio, Outcome(res, "suppressed"))
            /\ UNCHANGED <<last_active_command_ts, last_wake_ts, lastAccept>>
       ELSE \* lines 278-297: the detection is accepted
            /\ last_wake_ts' = now
            /\ lastAccept' = now
            /\ handled' = Handled(audio, Outcome(res, "wake"))
            /\ UNCHANGED last_active_command_ts
            /\ IF SleepingAtWake
               THEN th' = CallSpeak([th EXCEPT ![Consumer].cmd = text.cmd,
                                               ![Consumer].audio = NoAudio],
                                    Consumer, "ws_set")
               ELSE th' = [At(th, Consumer, "c_get") EXCEPT
                             ![LowestFree(ActThreads)] =
                                 [Fresh("a_lock") EXCEPT !.cmd = text.cmd]]
    /\ UNCHANGED <<now, audio_queue, captured, SYSTEM_SPEAKING, voice_lock,
                   active_mode, listening, active_mode_lock, MODE,
                   LAST_INTERACTION, running, ai_lock, device, energy_threshold,
                   rec, wk>>

\* line 304: what recognize_google can make of audio a.  Sound without speech
\* is a no-match (UnknownValueError), the wrapper's none.
ResultsOf(a) == IF a.text = NoText THEN {"none"} ELSE RecognitionResults

ConsumerRecognized == \E res \in ResultsOf(th[Consumer].audio) : ConsumerRecognizedAs(res)

\* line 266, the store: the clock reading taken before the pre-emption
\* becomes the session stamp.
ConsumerStore ==
    /\ th[Consumer].pc = "c_store"
    /\ last_active_command_ts' = th[Consumer].stamp
    /\ th' = [th EXCEPT ![Consumer].pc = "p_start", ![Consumer].stamp = 0]
    /\ UNCHANGED <<now, audio_queue, captured, SYSTEM_SPEAKING, voice_lock,
                   active_mode, listening, active_mode_lock, last_wake_ts, MODE,
                   LAST_INTERACTION, running, ai_lock, handled, lastAccept,
                   device, energy_threshold, rec, wk>>

\* _wake_from_sleep, lines 745-746, after its wake line was spoken.
WakeFromSleep ==
    /\ th[Consumer].pc = "ws_set"
    /\ MODE' = "active"
    /\ LAST_INTERACTION' = now
    /\ th' = [th EXCEPT ![Consumer].pc = "c_spawn"]
    /\ UNCHANGED <<now, audio_queue, captured, SYSTEM_SPEAKING, voice_lock,
                   active_mode, listening, last_active_command_ts,
                   active_mode_lock, last_wake_ts, running, ai_lock, handled,
                   lastAccept, device, energy_threshold, rec, wk>>

\* lines 293-297: the activation thread is started after the wake procedure.
ConsumerSpawn ==
    /\ th[Consumer].pc = "c_spawn"
    /\ th' = [At(th, Consumer, "c_get") EXCEPT
                ![LowestFree(ActThreads)] = [Fresh("a_lock") EXCEPT !.cmd = th[Consumer].cmd]]
    /\ UNCHANGED <<now, audio_queue, captured, SYSTEM_SPEAKING, voice_lock,
                   active_mode, listening, last_active_command_ts,
                   active_mode_lock, last_wake_ts, MODE, LAST_INTERACTION,
                   running, ai_lock, handled, lastAccept, device,
                   energy_threshold, rec, wk>>

----------------------------------------------------------------------------
(* JarvisListener._process_command, by a thread t: the consumer or an       *)
(* activation thread.                                                       *)

StartAi(f) == [f EXCEPT ![LowestFree(AiThreads)] = Fresh("w_start")]

\* A caller without an exception handler around _process_command: the
\* exception ends the thread.  C19_FailureRecovered does not hold of it.
ExceptEnds(t) == "done"

\* lines 267-271, 322-325 and 358-362: the caller's "except Exception"; the
\* caller goes on after the call.
ExceptContinue(t) == RetTarget(t)

\* lines 394-448.  After the sleep test the command is printed (line 403),
\* which raises when the console cannot encode the text; the handlers below
\* it catch their own exceptions.
ProcessCommand(t) ==
    /\ th[t].pc = "p_start"
    /\ IF MODE = "sleep"
       THEN \* lines 399-401: the wake-me fallback
            th' = CallSpeak(th, t, RetTarget(t))
       ELSE \E raised \in BOOLEAN :
            IF raised THEN th' = At(th, t, ExceptContinue(t))
            ELSE CASE th[t].cmd = "say" -> th' = CallSpeak(th, t, RetTarget(t))
              [] th[t].cmd = "type" -> th' = CallSpeak(th, t, "l_start")
              [] th[t].cmd = "typetext" -> th' = CallSpeak(th, t, "t_typed")
              [] OTHER -> \* handler.process: command_handler.py lines 579-586
                          th' = StartAi(At(th, t, RetTarget(t)))
    /\ UNCHANGED <<now, audio_queue, captured, SYSTEM_SPEAKING, voice_lock,
                   active_mode, listening, last_active_command_ts,
                   active_mode_lock, last_wake_ts, MODE, LAST_INTERACTION,
                   running, ai_lock, handled, lastAccept, device,
                   energy_threshold, rec, wk>>

\* _listen_for_short_text, line 478.
ListenStart(t) ==
    /\ th[t].pc = "l_start"
    /\ th' = [th EXCEPT ![t].pc = "l_get", ![t].deadline = now + SHORT_TEXT_TIMEOUT]
    /\ UNCHANGED <<now, audio_queue, captured, SYSTEM_SPEAKING, voice_lock,
                   active_mode, listening, last_active_command_ts,
                   active_mode_lock, last_wake_ts, MODE, LAST_INTERACTION,
                   running, ai_lock, handled, lastAccept, device,
                   energy_threshold, rec, wk>>

\* _listen_for_short_text, lines 479-485: the deadline passed (nothing is
\* typed), or an utterance is taken and handed to _recognize_from_audio.
ListenGet(t) ==
    /\ th[t].pc = "l_get"
    /\ IF now >= th[t].deadline
       THEN /\ th' = At(th, t, RetTarget(t))
            /\ UNCHANGED audio_queue
       ELSE /\ audio_queue # <<>>
            /\ audio_queue' = Tail(audio_queue)
            /\ th' = [th EXCEPT ![t].pc = "l_rec", ![t].audio = Head(audio_queue)]
    /\ UNCHANGED <<now, captured, SYSTEM_SPEAKING, voice_lock, active_mode,
                   listening, last_active_command_ts, active_mode_lock,
                   last_wake_ts, MODE, LAST_INTERACTION, running, ai_lock,
                   handled, lastAccept, device, energy_threshold, rec, wk>>

\* lines 485-487 and 423-424, 454: a recognised text is typed, announced by
\* "Typing: ..."; nothing recognised, the loop goes on.
ListenRecognized(t) ==
    /\ th[t].pc = "l_rec"
    /\ \E res \in RecognitionResults :
         IF HasText(res)
         THEN /\ th' = CallSpeak([th EXCEPT ![t].audio = NoAudio, ![t].deadline = 0],
                                 t, "t_typed")
              /\ handled' = Handled(th[t].audio, Outcome(res, "dictation"))
         ELSE /\ th' = [th EXCEPT ![t].pc = "l_get", ![t].audio = NoAudio]
              /\ handled' = Handled(th[t].audio, Outcome(res, "nothing"))
    /\ UNCHANGED <<now, audio_queue, captured, SYSTEM_SPEAKING, voice_lock,
                   active_mode, listening, last_active_command_ts,
                   active_mode_lock, last_wake_ts, MODE, LAST_INTERACTION,
                   running, ai_lock, lastAccept, device, energy_threshold, rec,
                   wk>>

\* _auto_type_text, line 469: "Typed."
Typed(t) ==
    /\ th[t].pc = "t_typed"
    /\ th' = CallSpeak(th, t, RetTarget(t))
    /\ UNCHANGED <<now, audio_queue, captured, SYSTEM_SPEAKING, voice_lock,
                   active_mode, listening, last_active_command_ts,
                   active_mode_lock, last_wake_ts, MODE, LAST_INTERACTION,
                   running, ai_lock, handled, lastAccept, device,
                   energy_threshold, rec, wk>>

----------------------------------------------------------------------------
(* JarvisListener._enter_active_command_mode, by an activation thread t     *)

\* An entry block without its guard.  C6_EntryIdempotent does not hold of it.
AlreadyActiveNever == FALSE

\* line 320: the guard of the entry block.
AlreadyActive == active_mode

\* lines 319-328, under _active_mode_lock.
EnterActive(t) ==
    /\ th[t].pc = "a_lock"
    /\ active_mode_lock = NoThread
    /\ IF AlreadyActive
       THEN \* lines 321-326: the initial command is processed under the lock
            /\ IF th[t].cmd # "none"
               THEN /\ active_mode_lock' = t
                    /\ th' = [th EXCEPT ![t].pc = "p_start"]
               ELSE /\ UNCHANGED active_mode_lock
                    /\ th' = At(th, t, "free")
            /\ UNCHANGED <<active_mode, listening>>
       ELSE /\ active_mode_lock' = t
            /\ active_mode' = TRUE
            /\ listening' = TRUE
            /\ th' = [th EXCEPT ![t].pc = "a_ts"]
    /\ UNCHANGED <<now, audio_queue, captured, SYSTEM_SPEAKING, voice_lock,
                   last_active_command_ts, last_wake_ts, MODE, LAST_INTERACTION,
                   running, ai_lock, handled, lastAccept, device,
                   energy_threshold, rec, wk>>

\* An entry that speaks no wake-up line.  C23_WakeActivates does not hold of
\* it.
AcknowledgeNot(f, t) == At(f, t, IF th[t].cmd = "none" THEN "a_wait" ELSE "p_start")

\* lines 336-362: the listening sound and the wake-up line, one call of
\* speak() on every path; then the initial command, if any, or the wait loop.
Acknowledge(f, t) == CallSpeak(f, t, IF th[t].cmd = "none" THEN "a_wait" ELSE "p_start")

\* lines 329-362: the session stamp and the end of the with block,
\* LAST_INTERACTION, the listening sound and the wake-up line; then the
\* initial command, if any, and the wait loop.
EnterAck(t) ==
    /\ th[t].pc = "a_ts"
    /\ last_active_command_ts' = now
    /\ active_mode_lock' = NoThread
    /\ \E preempted \in BOOLEAN :
         IF preempted
         THEN \* line 333 reads the clock; the store comes later
              /\ th' = [th EXCEPT ![t].pc = "a_store", ![t].stamp = now]
              /\ UNCHANGED LAST_INTERACTION
         ELSE /\ LAST_INTERACTION' = now
              /\ th' = Acknowledge(th, t)
    /\ UNCHANGED <<now, audio_queue, captured, SYSTEM_SPEAKING, voice_lock,
                   active_mode, listening, last_wake_ts, MODE, running, ai_lock,
                   handled, lastAccept, device, energy_threshold, rec, wk>>

\* line 333, the store, and lines 339-362.
EnterStore(t) ==
    /\ th[t].pc = "a_store"
    /\ LAST_INTERACTION' = th[t].stamp
    /\ th' = Acknowledge([th EXCEPT ![t].stamp = 0], t)
    /\ UNCHANGED <<now, audio_queue, captured, SYSTEM_SPEAKING, voice_lock,
                   active_mode, listening, last_active_command_ts,
                   active_mode_lock, last_wake_ts, MODE, running, ai_lock,
                   handled, lastAccept, device, energy_threshold, rec, wk>>

\* A wait loop that looks at active_mode only.  C34_StopTerminates does not
\* hold of it.
WaitOverSessionOnly == ~active_mode

\* line 365: the condition of the wait loop is false.
WaitOver == ~(active_mode /\ running)

\* lines 365-366: the wait loop is left.
WaitLoopExit(t) ==
    /\ th[t].pc = "a_wait"
    /\ WaitOver
    /\ th' = [th EXCEPT ![t].pc = "a_exit"]
    /\ UNCHANGED <<now, audio_queue, captured, SYSTEM_SPEAKING, voice_lock,
                   active_mode, listening, last_active_command_ts,
                   active_mode_lock, last_wake_ts, MODE, LAST_INTERACTION,
                   running, ai_lock, handled, lastAccept, device,
                   energy_threshold, rec, wk>>

\* lines 368-375: the exit block.
ExitBlock(t) ==
    /\ th[t].pc = "a_exit"
    /\ active_mode_lock = NoThread
    /\ listening' = FALSE
    /\ active_mode' = FALSE
    /\ LAST_INTERACTION' = now
    /\ th' = At(th, t, "free")
    /\ UNCHANGED <<now, audio_queue, captured, SYSTEM_SPEAKING, voice_lock,
                   last_active_command_ts, active_mode_lock, last_wake_ts, MODE,
                   running, ai_lock, handled, lastAccept, device,
                   energy_threshold, rec, wk>>

\* A return that leaves the with block without releasing _active_mode_lock.
\* C12_NoDeadlock does not hold of it.
EnterReturnKeepsLock(t) ==
    /\ th[t].pc = "a_unlock"
    /\ th' = At(th, t, "free")
    /\ UNCHANGED <<now, audio_queue, captured, SYSTEM_SPEAKING, voice_lock,
                   active_mode, listening, last_active_command_ts,
                   active_mode_lock, last_wake_ts, MODE, LAST_INTERACTION,
                   running, ai_lock, handled, lastAccept, device,
                   energy_threshold, rec, wk>>

\* line 326: return inside the with block.
EnterReturn(t) ==
    /\ th[t].pc = "a_unlock"
    /\ active_mode_lock' = NoThread
    /\ th' = At(th, t, "free")
    /\ UNCHANGED <<now, audio_queue, captured, SYSTEM_SPEAKING, voice_lock,
                   active_mode, listening, last_active_command_ts, last_wake_ts,
                   MODE, LAST_INTERACTION, running, ai_lock, handled,
                   lastAccept, device, energy_threshold, rec, wk>>

----------------------------------------------------------------------------
(* SleepManager._loop and _do_sleep_procedure *)

\* A monitor that measures idleness without testing that LAST_INTERACTION is
\* set or that MODE is not "sleep".  C15_SleepOnce does not hold of it.
SleepDueUnguarded == now - LAST_INTERACTION >= SLEEP_TIMEOUT

\* A monitor whose idle test never succeeds.  C13_IdleSleeps does not hold
\* of it.
SleepNeverDue == FALSE

\* _loop, lines 135-148.
SleepDue ==
    /\ LAST_INTERACTION # None
    /\ MODE # "sleep"
    /\ now - LAST_INTERACTION >= SLEEP_TIMEOUT

SleepCheck ==
    /\ th[SleepMgr].pc = "m_check"
    /\ SleepDue
    /\ th' = [th EXCEPT ![SleepMgr].pc = "m_sleep"]
    /\ UNCHANGED <<now, audio_queue, captured, SYSTEM_SPEAKING, voice_lock,
                   active_mode, listening, last_active_command_ts,
                   active_mode_lock, last_wake_ts, MODE, LAST_INTERACTION,
                   running, ai_lock, handled, lastAccept, device,
                   energy_threshold, rec, wk>>

\* _do_sleep_procedure, lines 32-42.
DoSleepProcedure ==
    /\ th[SleepMgr].pc = "m_sleep"
    /\ IF MODE = "sleep"
       THEN /\ th' = At(th, SleepMgr, "m_check")
            /\ UNCHANGED MODE
       ELSE /\ MODE' = "sleep"
            /\ th' = CallSpeak(th, SleepMgr, "m_check")
    /\ UNCHANGED <<now, audio_queue, captured, SYSTEM_SPEAKING, voice_lock,
                   active_mode, listening, last_active_command_ts,
                   active_mode_lock, last_wake_ts, LAST_INTERACTION, running,
                   ai_lock, handled, lastAccept, device, energy_threshold, rec,
                   wk>>

----------------------------------------------------------------------------
(* JarvisCommandHandler._ai_pipeline_worker, by a worker thread w *)

\* lines 598-603: the throttled "Thinking..." line.
AiThink(w) ==
    /\ th[w].pc = "w_start"
    /\ IF ai_lock = NoThread
       THEN /\ ai_lock' = w
            /\ th' = CallSpeak(th, w, "w_li")
       ELSE /\ UNCHANGED ai_lock
            /\ th' = At(th, w, "w_li")
    /\ UNCHANGED <<now, audio_queue, captured, SYSTEM_SPEAKING, voice_lock,
                   active_mode, listening, last_active_command_ts,
                   active_mode_lock, last_wake_ts, MODE, LAST_INTERACTION,
                   running, handled, lastAccept, device, energy_threshold, rec,
                   wk>>

\* lines 603-655: the throttle lock is released, the reply is computed,
\* LAST_INTERACTION is refreshed and the reply is spoken.
AiReply(w) ==
    /\ th[w].pc = "w_li"
    /\ ai_lock' = IF ai_lock = w THEN NoThread ELSE ai_lock
    /\ LAST_INTERACTION' = now
    /\ th' = CallSpeak(th, w, "free")
    /\ UNCHANGED <<now, audio_queue, captured, SYSTEM_SPEAKING, voice_lock,
                   active_mode, listening, last_active_command_ts,
                   active_mode_lock, last_wake_ts, MODE, running, handled,
                   lastAccept, device, energy_threshold, rec, wk>>

----------------------------------------------------------------------------
(* _recognize_from_audio, lines 300-314, followed call by call *)

\* line 300: the default of the parameter retries; no caller passes another.
RETRIES_DEFAULT == 1

\* What a call of recognize_google ends with: a transcript (words, the empty
\* string, only whitespace) or an exception.  OtherError stands for an
\* exception of any other class derived from Exception.
Transcripts == {"text", "empty", "blank"}
BackendErrors == {"UnknownValueError", "RequestError", "OtherError"}
BackendOutcomesOf(a) ==
    IF a.text = NoText THEN BackendErrors ELSE Transcripts \cup BackendErrors

\* The audio arguments: no buffer, or an utterance as the queue holds it.
RecInputs ==
    {NoAudio} \cup {[id |-> i, text |-> x, spk |-> FALSE] :
                      i \in 1..MaxUtter, x \in Texts \cup {NoText}}

\* A wrapper whose last except clause is missing.  C33_RecognizeTotal does
\* not hold of it.
ExceptClausesNoGeneric == <<"UnknownValueError", "RequestError">>

\* lines 305, 307 and 310: the except clauses in their order.
ExceptClauses == <<"UnknownValueError", "RequestError", "Exception">>

\* Exception e is an instance of class c.
IsInstance(e, c) == c = e \/ c = "Exception"

\* The first except clause that catches e, "none" when no clause does.
Clause(e) ==
    LET m == {i \in 1..Len(ExceptClauses) : IsInstance(e, ExceptClauses[i])} IN
    IF m = {} THEN "none"
    ELSE ExceptClauses[CHOOSE i \in m : \A j \in m : i <= j]

\* lines 300-302: the call; an absent buffer returns None at once.
RecognizeCall ==
    /\ rec.pc = "idle"
    /\ \E a \in RecInputs :
         rec' = [pc |-> IF a = NoAudio THEN "returned" ELSE "try", audio |-> a,
                 retries |-> RETRIES_DEFAULT, log |-> <<>>, result |-> "none"]
    /\ UNCHANGED <<now, audio_queue, captured, SYSTEM_SPEAKING, voice_lock,
                   active_mode, listening, last_active_command_ts,
                   active_mode_lock, last_wake_ts, MODE, LAST_INTERACTION,
                   running, ai_lock, th, handled, lastAccept, device,
                   energy_threshold, wk>>

\* lines 303-314: one call of the backend and what the wrapper does with its
\* outcome.  The recursive call of line 313 is the next step with one retry
\* less; an exception no clause catches leaves the wrapper.
RecognizeBackend ==
    /\ rec.pc = "try"
    /\ \E o \in BackendOutcomesOf(rec.audio) :
         LET log == Append(rec.log, o) IN
         IF o \in Transcripts
         THEN rec' = [rec EXCEPT !.pc = "returned", !.log = log, !.result = Strip(o)]
         ELSE IF Clause(o) \in {"UnknownValueError", "RequestError"}
         THEN rec' = [rec EXCEPT !.pc = "returned", !.log = log, !.result = "none"]
         ELSE IF Clause(o) = "Exception"
         THEN IF rec.retries > 0
              THEN rec' = [rec EXCEPT !.retries = @ - 1, !.log = log]
              ELSE rec' = [rec EXCEPT !.pc = "returned", !.log = log, !.result = "none"]
         ELSE rec' = [rec EXCEPT !.pc = "raised", !.log = log]
    /\ UNCHANGED <<now, audio_queue, captured, SYSTEM_SPEAKING, voice_lock,
                   active_mode, listening, last_active_command_ts,
                   active_mode_lock, last_wake_ts, MODE, LAST_INTERACTION,
                   running, ai_lock, th, handled, lastAccept, device,
                   energy_threshold, wk>>

\* The caller has the result (or the exception); the next call can start.
RecognizeDone ==
    /\ rec.pc \in {"returned", "raised"}
    /\ rec' = NoCall
    /\ UNCHANGED <<now, audio_queue, captured, SYSTEM_SPEAKING, voice_lock,
                   active_mode, listening, last_active_command_ts,
                   active_mode_lock, last_wake_ts, MODE, LAST_INTERACTION,
                   running, ai_lock, th, handled, lastAccept, device,
                   energy_threshold, wk>>

----------------------------------------------------------------------------
(* The wake-phrase removal of _audio_consumer_loop, lines 274-297, followed  *)
(* step by step.  A string is the sequence of its characters.                *)

Hey == <<"h", "e", "y">>
Ok == <<"o", "k">>
Okay == <<"o", "k", "a", "y">>
Hi == <<"h", "i">>
Hello == <<"h", "e", "l", "l", "o">>
Jarvis == <<"j", "a", "r", "v", "i", "s">>
Bolo == <<"b", "o", "l", "o">>
Haan == <<"h", "a", "a", "n">>
Open == <<"o", "p", "e", "n">>
Notepad == <<"n", "o", "t", "e", "p", "a", "d">>

\* The string of the words ws, separated by single spaces.
RECURSIVE Phrase(_)
Phrase(ws) ==
    IF ws = <<>> THEN <<>>
    ELSE IF Len(ws) = 1 THEN ws[1]
    ELSE ws[1] \o <<" ">> \o Phrase(Tail(ws))

\* lines 86-90: the wake phrases, in the order of the list.
WAKE_WORDS ==
    <<Phrase(<<Hey, Jarvis>>), Phrase(<<Ok, Jarvis>>), Phrase(<<Okay, Jarvis>>),
      Phrase(<<Hi, Jarvis>>), Phrase(<<Hello, Jarvis>>), Phrase(<<Jarvis>>),
      Phrase(<<Jarvis, Bolo>>), Phrase(<<Jarvis, Haan>>)>>

\* s begins with w.
StartsWith(s, w) == Len(s) >= Len(w) /\ SubSeq(s, 1, Len(w)) = w

\* line 274, `w in normalized`: w is a substring of s.
Contains(s, w) == \E i \in 0..(Len(s) - Len(w)) : StartsWith(SubSeq(s, i + 1, Len(s)), w)

\* line 282, s.replace(w, ""): the occurrences of w are cut out from left to
\* right.
RECURSIVE Replace(_, _)
Replace(s, w) ==
    IF s = <<>> THEN <<>>
    ELSE IF StartsWith(s, w) THEN Replace(SubSeq(s, Len(w) + 1, Len(s)), w)
    ELSE <<Head(s)>> \o Replace(Tail(s), w)

\* line 282, .strip(): no whitespace at either end.
RECURSIVE StripSpaces(_)
StripSpaces(s) ==
    IF s = <<>> THEN <<>>
    ELSE IF Head(s) = " " THEN StripSpaces(Tail(s))
    ELSE IF s[Len(s)] = " " THEN StripSpaces(SubSeq(s, 1, Len(s) - 1))
    ELSE s

\* What the user says to a listener in wake mode: a wake phrase, a wake
\* phrase followed by a command, or a command alone.
WakePhrases == {<<Hey, Jarvis>>, <<Ok, Jarvis>>, <<Okay, Jarvis>>, <<Hi, Jarvis>>,
                <<Hello, Jarvis>>, <<Jarvis>>, <<Jarvis, Bolo>>, <<Jarvis, Haan>>}
SpokenCommand == <<Open, Notepad>>
Utterances ==
    {Phrase(p) : p \in WakePhrases}
      \cup {Phrase(p \o SpokenCommand) : p \in WakePhrases}
      \cup {Phrase(SpokenCommand)}

\* line 274: the text of an utterance reaches the wake-mode branch; without
\* a wake phrase in it nothing is done.  (The debounce test of line 276 is
\* taken as passed: the utterance is accepted.)
WakeHeard ==
    /\ wk.pc = "idle"
    /\ \E u \in Utterances :
         IF \E k \in 1..Len(WAKE_WORDS) : Contains(u, WAKE_WORDS[k])
         THEN wk' = [pc |-> "loop", heard |-> u, cleaned |-> u, i |-> 1]
         ELSE wk' = [pc |-> "ignored", heard |-> u, cleaned |-> <<>>, i |-> 0]
    /\ UNCHANGED <<now, audio_queue, captured, SYSTEM_SPEAKING, voice_lock,
                   active_mode, listening, last_active_command_ts,
                   active_mode_lock, last_wake_ts, MODE, LAST_INTERACTION,
                   running, ai_lock, th, handled, lastAccept, device,
                   energy_threshold, rec>>

\* lines 281-282: one round of the loop over _WAKE_WORDS; after the last
\* round the activation thread is started with the text that is left
\* (lines 293-297).
WakeReplace ==
    /\ wk.pc = "loop"
    /\ wk' = [wk EXCEPT !.cleaned = StripSpaces(Replace(@, WAKE_WORDS[wk.i])),
                        !.i = @ + 1,
                        !.pc = IF wk.i = Len(WAKE_WORDS) THEN "start" ELSE "loop"]
    /\ UNCHANGED <<now, audio_queue, captured, SYSTEM_SPEAKING, voice_lock,
                   active_mode, listening, last_active_command_ts,
                   active_mode_lock, last_wake_ts, MODE, LAST_INTERACTION,
                   running, ai_lock, th, handled, lastAccept, device,
                   energy_threshold, rec>>

\* lines 358-362, `if initial_command`: a text that is not empty is
\* dispatched to _process_command as the initial command.
WakeDispatch ==
    /\ wk.pc = "start"
    /\ wk' = [wk EXCEPT !.pc = IF wk.cleaned # <<>> THEN "dispatched" ELSE "waiting"]
    /\ UNCHANGED <<now, audio_queue, captured, SYSTEM_SPEAKING, voice_lock,
                   active_mode, listening, last_active_command_ts,
                   active_mode_lock, last_wake_ts, MODE, LAST_INTERACTION,
                   running, ai_lock, th, handled, lastAccept, device,
                   energy_threshold, rec>>

\* The utterance is dealt with; the next one can be heard.
WakeDone ==
    /\ wk.pc \in {"ignored", "dispatched", "waiting"}
    /\ wk' = NoRemoval
    /\ UNCHANGED <<now, audio_queue, captured, SYSTEM_SPEAKING, voice_lock,
                   active_mode, listening, last_active_command_ts,
                   active_mode_lock, last_wake_ts, MODE, LAST_INTERACTION,
                   running, ai_lock, th, handled, lastAccept, device,
                   energy_threshold, rec>>

----------------------------------------------------------------------------
(* JarvisListener.stop, lines 776-792: running is cleared, the capture      *)
(* thread is told to stop (BackgroundCallback needs running), and the join   *)
(* of the consumer thread waits at most one second.                          *)

Stop ==
    /\ running
    /\ running' = FALSE
    /\ UNCHANGED <<now, audio_queue, captured, SYSTEM_SPEAKING, voice_lock,
                   active_mode, listening, last_active_command_ts,
                   active_mode_lock, last_wake_ts, MODE, LAST_INTERACTION,
                   ai_lock, th, handled, lastAccept, device, energy_threshold,
                   rec, wk>>

----------------------------------------------------------------------------

ConsumerStep ==
    \/ ConsumerGet
    \/ ConsumerEmpty
    \/ ExitActiveMode
    \/ ConsumerRecognized
    \/ ConsumerStore
    \/ WakeFromSleep
    \/ ConsumerSpawn

SpeakStep(t) ==
    \/ SpeakAcquire(t)
    \/ SpeakAbort(t)
    \/ SpeakFinally(t)

ListenStep(t) ==
    \/ ListenStart(t)
    \/ ListenGet(t)
    \/ ListenRecognized(t)
    \/ Typed(t)

ActivationStep(t) ==
    \/ EnterActive(t)
    \/ EnterAck(t)
    \/ EnterStore(t)
    \/ WaitLoopExit(t)
    \/ ExitBlock(t)
    \/ EnterReturn(t)

SleepStep ==
    \/ SleepCheck
    \/ DoSleepProcedure

AiStep(w) ==
    \/ AiThink(w)
    \/ AiReply(w)

\* The steps of the program's threads.
Program ==
    \/ ConsumerStep
    \/ SleepStep
    \/ \E t \in Threads : SpeakStep(t)
    \/ \E t \in CmdThreads : ProcessCommand(t)
    \/ \E t \in ActThreads : ActivationStep(t)
    \/ \E w \in AiThreads : AiStep(w)

\* Spec: the user says wake phrases, with or without a command after them,
\* and plain commands; time passes through debounce windows, session
\* timeouts and the sleep timeout.
Next ==
    \/ \E text \in {WakeOnly, WakeSay, Say} : BackgroundCallback(text, MaxUtter)
    \/ Tick(DebouncePoints \cup SessionPoints \cup SleepPoints)
    \/ Program

Spec == Init /\ [][Next]_vars

\* SpecListen: the user says "jarvis type" and dictates; time passes through
\* debounce windows and the dictation deadline.
NextListen ==
    \/ BackgroundCallback(WakeType, MaxListenUtter)
    \/ Tick(DebouncePoints \cup DeadlinePoints)
    \/ ConsumerGet
    \/ ConsumerRecognized
    \/ ConsumerStore
    \/ \E t \in Threads : SpeakStep(t)
    \/ \E t \in CmdThreads : ProcessCommand(t) \/ ListenStep(t)
    \/ \E t \in ActThreads :
          EnterActive(t) \/ EnterAck(t) \/ EnterStore(t) \/ EnterReturn(t)

SpecListen == Init /\ [][NextListen]_vars

\* SpecQueue: sound in which the recognizer finds no speech arrives faster
\* than the consumer takes it.
NextQueue ==
    \/ BackgroundCallback(Say, MaxQueueUtter)
    \/ ConsumerGet
    \/ ConsumerRecognizedAs("none")

SpecQueue == Init /\ [][NextQueue]_vars

\* SpecDevice: Spec started after a construction in which the capture
\* device may have failed.
SpecDevice == InitDevice /\ [][Next]_vars

\* SpecNoise: Spec in a room that is never silent: sound without speech
\* reaches the queue whenever there is room for it.
NextNoise ==
    \/ NoiseCallback
    \/ Next

SpecNoise == Init /\ [][NextNoise]_vars

\* SpecRecognize: calls of _recognize_from_audio with every audio argument
\* and every behaviour of the backend.
NextRecognize ==
    \/ RecognizeCall
    \/ RecognizeBackend
    \/ RecognizeDone

SpecRecognize == Init /\ [][NextRecognize]_vars

\* SpecWake: the wake-phrase removal applied to what the user may say.
NextWake ==
    \/ WakeHeard
    \/ WakeReplace
    \/ WakeDispatch
    \/ WakeDone

SpecWake == Init /\ [][NextWake]_vars

\* SpecStop: Spec with a call of stop() at any moment.
NextStop ==
    \/ Stop
    \/ ConsumerStop
    \/ Next

SpecStop == Init /\ [][NextStop]_vars

\* LiveSpec: Spec with every thread scheduled again and again and time
\* passing.  The consumer loop, the wait loop of _enter_active_command_mode
\* and SleepManager._loop poll with timeouts (0.4 s, 0.3 s, 1 s), and every
\* lock is contended by finitely many calls.
Fairness ==
    /\ WF_vars(Tick(DebouncePoints \cup SessionPoints \cup SleepPoints))
    /\ WF_vars(ConsumerStep \/ SpeakStep(Consumer) \/ ProcessCommand(Consumer))
    /\ WF_vars(SleepStep \/ SpeakStep(SleepMgr))
    /\ \A t \in ActThreads :
          WF_vars(ActivationStep(t) \/ SpeakStep(t) \/ ProcessCommand(t))
    /\ \A w \in AiThreads : WF_vars(AiStep(w) \/ SpeakStep(w))

LiveSpec == Init /\ [][Next]_vars /\ Fairness

\* LiveNoise: SpecNoise with the same scheduling, and a backend that delivers
\* sound whenever the queue has room for it.
LiveNoise == SpecNoise /\ Fairness /\ WF_vars(NoiseCallback)

\* LiveStop: SpecStop with the same scheduling; the consumer also takes the
\* step that ends its loop.
LiveStop == SpecStop /\ Fairness /\ WF_vars(ConsumerStop)

----------------------------------------------------------------------------
(* Claims *)

\* C1: no utterance that was enqueued while the speaking flag was true is
\* ever passed to _recognize_from_audio, by whichever thread dequeues it and
\* whether or not the flag has been cleared when it is dequeued.
C1_NoSelfHearing ==
    \A t \in CmdThreads : th[t].pc \in {"c_rec", "l_rec"} => ~th[t].audio.spk

\* C2: at every instant the speaking flag is true the consumer is not
\* recognizing, wake-matching or dispatching an utterance.
C2_ConsumerQuietWhileSpeaking ==
    SYSTEM_SPEAKING => th[Consumer].pc \notin {"c_rec", "p_start"}

\* C3: every speak call that sets SYSTEM_SPEAKING sets it back to false on
\* every exit path: whenever no thread is inside the locked section of speak,
\* SYSTEM_SPEAKING is false.
C3_FlagClearedOnExit ==
    voice_lock = NoThread => ~SYSTEM_SPEAKING

\* A speak call that set the flag has returned: an utterance captured during
\* it is still queued, and nobody is inside the locked section.
C3_SpeakReturned ==
    /\ voice_lock = NoThread
    /\ ~SYSTEM_SPEAKING
    /\ \E i \in 1..Len(audio_queue) : audio_queue[i].spk

\* C4: the system is never in an active session and asleep at the same time:
\* no reachable state has active_mode true together with MODE = "sleep".
C4_NeverActiveAndAsleep ==
    ~(active_mode /\ MODE = "sleep")

\* The consumer finishes recognizing a wake phrase in wake mode.
WakeDetection ==
    /\ th[Consumer].pc = "c_rec"
    /\ th'[Consumer].pc # "c_rec"
    /\ ~active_mode
    /\ Len(handled') > Len(handled)
    /\ handled'[Len(handled')].as \in {"wake", "suppressed"}

InRepeatedEntry(t) ==
    \/ th[t].pc = "a_lock" /\ active_mode
    \/ active_mode_lock = t /\ th[t].pc # "a_ts"

\* C6: invoking _enter_active_command_mode while active_mode is already true
\* leaves active_mode, listening and _last_active_command_ts unchanged and
\* emits no acknowledgment, for any number of concurrent invocations.
C6_EntryIdempotent ==
    [][\A t \in ActThreads :
         (InRepeatedEntry(t) /\ th'[t] # th[t]) =>
             /\ UNCHANGED <<active_mode, listening, last_active_command_ts>>
             /\ th'[t].pc # "a_ts"
             /\ th[t].pc = "a_lock" => th'[t].pc \in {"p_start", "free"}]_vars

\* An invocation that found active_mode true has run its initial command and
\* is about to return, while another one is in the same position of entry.
C6_RepeatedEntryReturns ==
    \E t \in ActThreads :
        /\ active_mode
        /\ active_mode_lock = t
        /\ th[t].pc = "a_unlock"

\* C7: if _last_active_command_ts is refreshed at time T, active_mode does
\* not change from true to false before T + active_inactivity_timeout.
C7_SessionKept ==
    [][(active_mode /\ ~active_mode') =>
           now - last_active_command_ts >= ACTIVE_INACTIVITY_DEFAULT]_vars

\* An active session to which no further utterance arrives: the backend has
\* delivered its last utterance, the consumer has handled it, every
\* activation thread is past its entry block and the inactivity timeout of
\* the session lies within the horizon of the clock.
QuietSession ==
    /\ active_mode
    /\ captured = MaxUtter
    /\ audio_queue = <<>>
    /\ th[Consumer].pc = "c_get"
    /\ \A t \in ActThreads : th[t].pc \notin {"a_lock", "a_ts"}
    /\ last_active_command_ts + ACTIVE_INACTIVITY_DEFAULT < MaxTime

\* C8: in an active session to which no further utterance arrives,
\* active_mode eventually becomes false without any external event, and the
\* activation thread waiting on the session terminates.
C8_SessionEnds ==
    /\ QuietSession ~> ~active_mode
    /\ \A t \in ActThreads :
          (QuietSession /\ th[t].pc = "a_wait") ~> (th[t].pc = "free")

\* A session ended by its inactivity timeout: the wake phrase was accepted,
\* the timeout has passed, active_mode is false again and every activation
\* thread has terminated.
C8_SessionEnded ==
    /\ \E i \in 1..Len(handled) : handled[i].as = "wake"
    /\ captured = MaxUtter
    /\ audio_queue = <<>>
    /\ th[Consumer].pc = "c_get"
    /\ last_active_command_ts > 0
    /\ now - last_active_command_ts > ACTIVE_INACTIVITY_DEFAULT
    /\ ~active_mode
    /\ \A t \in ActThreads : th[t].pc = "free"

\* C9: utterances are handled strictly in the order the capture callback
\* enqueued them, and each is recognized at most once.
C9_CaptureOrder ==
    \A i, j \in 1..Len(handled) : i < j => handled[i].id < handled[j].id

\* C10: only one utterance is processed at a time: the activation thread's
\* handling of the initial command never overlaps the consumer's handling
\* of another utterance.
C10_OneAtATime ==
    ~ /\ th[Consumer].pc \in {"c_rec", "p_start"}
      /\ \E t \in ActThreads : th[t].pc \in {"p_start", "l_get", "l_rec"}

\* C11: the capture callback never blocks and the queue never holds more
\* than its capacity (30): when the queue is full the newly captured
\* utterance is dropped, the queued utterances and their order are unchanged
\* and the callback returns normally.
C11_QueueBounded ==
    [][/\ Len(audio_queue') <= 30
       /\ (captured' # captured /\ Len(audio_queue) = 30) =>
              audio_queue' = audio_queue
       /\ (captured' # captured /\ Len(audio_queue) < 30) =>
              /\ Len(audio_queue') = Len(audio_queue) + 1
              /\ SubSeq(audio_queue', 1, Len(audio_queue)) = audio_queue]_vars

\* An utterance was dropped: the queue is full and the latest utterance
\* delivered is not its last.
C11_Dropped ==
    /\ Len(audio_queue) = 30
    /\ audio_queue[30].id < captured

\* The thread that holds the lock thread t is blocked on, NoThread if t is
\* not blocked: speak waits for the voice lock, the entry block, the exit
\* block and _exit_active_mode wait for _active_mode_lock.  Queue.get with a
\* timeout, put_nowait and _ai_lock.acquire(blocking=False) wait for no lock.
WaitsFor(t) ==
    IF th[t].pc = "sp_acq" /\ voice_lock # NoThread THEN voice_lock
    ELSE IF th[t].pc \in {"a_lock", "a_exit", "c_exit"} /\ active_mode_lock # NoThread
         THEN active_mode_lock
    ELSE NoThread

\* The steps of thread t.
ThreadStep(t) ==
    \/ t = Consumer /\ ConsumerStep
    \/ t = SleepMgr /\ SleepStep
    \/ SpeakStep(t)
    \/ ProcessCommand(t)
    \/ ActivationStep(t)
    \/ AiStep(t)

IdleAfterInteraction ==
    /\ LAST_INTERACTION # None
    /\ MODE = "active"
    /\ ~active_mode
    /\ captured = MaxUtter
    /\ audio_queue = <<>>
    /\ th[Consumer].pc = "c_get"
    /\ \A t \in ActThreads \cup AiThreads : th[t].pc = "free"
    /\ LAST_INTERACTION + SLEEP_TIMEOUT <= MaxTime

\* C13: if an interaction has occurred, the system is Idle and nothing
\* refreshes LAST_INTERACTION for SLEEP_TIMEOUT seconds, MODE eventually
\* becomes "sleep".
C13_IdleSleeps ==
    IdleAfterInteraction ~> (MODE = "sleep")

\* The system fell asleep from Idle: 120 s after the last interaction MODE
\* is "sleep", with no session and nothing pending.
C13_Asleep ==
    /\ MODE = "sleep"
    /\ ~active_mode
    /\ LAST_INTERACTION # None
    /\ now - LAST_INTERACTION >= 120
    /\ audio_queue = <<>>
    /\ th[Consumer].pc = "c_get"
    /\ \A t \in ActThreads \cup AiThreads : th[t].pc = "free"

\* The consumer's recognition of an utterance without a wake phrase returns
\* its text.
PlainTextRecognized ==
    /\ th[Consumer].pc = "c_rec"
    /\ ~th[Consumer].audio.text.wake
    /\ Len(handled') > Len(handled)
    /\ handled'[Len(handled')].as \notin {"nothing", "blank"}

\* C14: while MODE = "sleep", a recognized utterance that contains no wake
\* phrase is never dispatched to a command handler and is answered with the
\* spoken wake-me fallback: its text goes to _process_command, which speaks
\* the fallback and starts nothing.
C14_SleepingFallback ==
    [][/\ (PlainTextRecognized /\ MODE = "sleep") => th'[Consumer].pc = "p_start"
       /\ \A t \in CmdThreads :
             (th[t].pc = "p_start" /\ th'[t].pc # "p_start" /\ MODE = "sleep") =>
                 /\ th'[t].pc = "sp_acq"
                 /\ \A w \in AiThreads : th'[w] = th[w]]_vars

\* C15: the sleep monitor never performs the sleep transition while MODE is
\* already "sleep" or while LAST_INTERACTION is unset: MODE is never "sleep"
\* before the first activation, and a sleep line is spoken only in the step
\* that takes MODE to "sleep", at most once per sleep period.
C15_SleepOnce ==
    [][/\ (MODE # "sleep" /\ MODE' = "sleep") =>
              /\ LAST_INTERACTION # None
              /\ \E i \in 1..Len(handled) : handled[i].as = "wake"
       /\ (th[SleepMgr].pc = "m_sleep" /\ th'[SleepMgr].pc = "sp_acq") =>
              (MODE # "sleep" /\ MODE' = "sleep")
       /\ (th[SleepMgr].pc = "m_check" /\ th'[SleepMgr].pc # "m_check") =>
              (MODE # "sleep" /\ LAST_INTERACTION # None)]_vars

\* The sleep transition was performed: MODE is "sleep" and the monitor is
\* speaking its sleep line.
C15_Announcing ==
    /\ MODE = "sleep"
    /\ th[SleepMgr].pc = "sp_play"
    /\ voice_lock = SleepMgr

\* C16: when a wake phrase is accepted while MODE = "sleep", the wake side
\* effect is performed and MODE is set to "active" before the activation
\* thread sets active_mode and acknowledges: the accepting step starts no
\* thread and speaks the wake line, the end of _wake_from_sleep sets MODE to
\* "active" and starts no thread, and the thread is started after it.
C16_WakeBeforeSession ==
    [][/\ ( /\ th[Consumer].pc = "c_rec"
            /\ MODE = "sleep"
            /\ Len(handled') > Len(handled)
            /\ handled'[Len(handled')].as = "wake" ) =>
              /\ \A t \in ActThreads : th'[t] = th[t]
              /\ th'[Consumer].pc = "sp_acq"
              /\ th'[Consumer].ret = "ws_set"
       /\ (th[Consumer].pc = "ws_set" /\ th'[Consumer].pc # "ws_set") =>
              /\ MODE' = "active"
              /\ th'[Consumer].pc = "c_spawn"
              /\ \A t \in ActThreads : th'[t] = th[t]
       /\ (th[Consumer].pc = "c_spawn" /\ th'[Consumer].pc # "c_spawn") =>
              \E t \in ActThreads : th[t].pc = "free" /\ th'[t].pc = "a_lock"]_vars

\* A wake phrase was accepted while asleep and the wake side effect is done:
\* MODE is "active" again and the consumer is about to start the thread.
C16_Woken ==
    /\ th[Consumer].pc = "c_spawn"
    /\ MODE = "active"
    /\ LAST_INTERACTION = now

\* The consumer has just recognized a text with a wake phrase in it: it was
\* accepted in wake mode while asleep (the wake line is next), or it was
\* taken as the command of the open session ("hey jarvis" alone is the only
\* text of class "ask" the user says in Spec).
WakePhraseRecognized ==
    \/ th[Consumer].pc = "sp_acq" /\ th[Consumer].ret = "ws_set"
    \/ /\ th[Consumer].pc = "p_start"
       /\ th[Consumer].cmd = "ask"
       /\ last_active_command_ts = now

\* C17: the wake phrase is always honored while sleeping: in every state
\* with MODE = "sleep", a recognized utterance containing a wake phrase
\* leads eventually to MODE = "active" and an active session.
C17_WakeHonored ==
    (MODE = "sleep" /\ WakePhraseRecognized) ~> (MODE = "active" /\ active_mode)

\* The recognition of an utterance ends with a result that is absent, empty
\* or only whitespace.
NoTextResult ==
    /\ Len(handled') > Len(handled)
    /\ handled'[Len(handled')].as \in {"nothing", "blank"}

\* C18: a recognition result that is absent, empty or only whitespace never
\* changes active_mode, MODE, _last_wake_ts or either interaction timestamp
\* and never reaches _process_command or the command handler: no thread
\* enters _process_command and no thread is started.
C18_NoTextNoEffect ==
    [][NoTextResult =>
         /\ UNCHANGED <<active_mode, MODE, last_wake_ts, LAST_INTERACTION,
                        last_active_command_ts>>
         /\ \A t \in CmdThreads : th'[t].pc = "p_start" => th[t].pc = "p_start"
         /\ \A t \in ActThreads \cup AiThreads :
                th[t].pc = "free" => th'[t].pc = "free"]_vars

\* A transcript of whitespace was dropped during a session: it is the latest
\* utterance handled, the session is open and the consumer is back at its
\* queue wait.
C18_BlankDropped ==
    /\ handled # <<>>
    /\ handled[Len(handled)].as = "blank"
    /\ active_mode
    /\ th[Consumer].pc = "c_get"

\* Thread t's recognizer finds no text in the utterance t holds: no match, a
\* service error or an exception.
RecognizerFailure(t) ==
    /\ th[t].pc \in {"c_rec", "l_rec"}
    /\ th'[t] # th[t]
    /\ Len(handled') > Len(handled)
    /\ handled'[Len(handled')].as = "nothing"

\* Thread t's _process_command ends without a handler having been called:
\* no reply is spoken and no worker is started.
CommandFailure(t) ==
    /\ th[t].pc = "p_start"
    /\ th'[t].pc \notin {"p_start", "sp_acq"}
    /\ \A w \in AiThreads : th'[w] = th[w]

\* C19: a per-utterance failure (no match, service error or exception of
\* the recognizer, or an exception while an in-session command is
\* processed) never ends the consumer loop and dispatches nothing for the
\* utterance: the loop is still running, a consumer that met the failure is
\* back at a queue wait holding nothing, and the step starts no thread,
\* enters no _process_command and calls no speak().
C19_FailureRecovered ==
    [][\A t \in CmdThreads :
         RecognizerFailure(t) \/ CommandFailure(t) =>
             /\ running'
             /\ th'[Consumer].pc # "done"
             /\ t = Consumer =>
                    /\ th'[t].pc \in {"c_get", "l_get"}
                    /\ th'[t].audio = NoAudio
             /\ th'[t].pc \notin {"p_start", "sp_acq"}
             /\ \A u \in Threads \ {t} : th'[u] = th[u]
             /\ UNCHANGED <<active_mode, MODE, LAST_INTERACTION,
                            SYSTEM_SPEAKING>>]_vars

\* The recognizer failed on the first utterance and the consumer went on to
\* the second, a wake phrase, which it accepted.
C19_NextHandled ==
    /\ Len(handled) = 2
    /\ handled[1].id = 1 /\ handled[1].as = "nothing"
    /\ handled[2].id = 2 /\ handled[2].as = "wake"

\* C20: the interaction timestamps, state.LAST_INTERACTION and
\* _last_active_command_ts, never decrease, whichever thread writes them
\* and wherever a writer is pre-empted between reading the clock and storing
\* the reading.
C20_StampsMonotonic ==
    [][/\ last_active_command_ts' >= last_active_command_ts
       /\ LAST_INTERACTION' >= LAST_INTERACTION]_vars

\* The times at which a command was dispatched in a session.
CommandTimes == {handled[i].at : i \in {j \in 1..Len(handled) : handled[j].as = "command"}}

\* The step in which the system falls asleep.
SleepTransition == MODE # "sleep" /\ MODE' = "sleep"

\* C21: every command received in a session refreshes the timestamps the
\* inactivity monitors read: once a command dispatched at time T is being
\* processed the session stamp is at least T, and no sleep transition
\* happens within SLEEP_TIMEOUT of a dispatched command.
C21_CommandRefreshes ==
    [][/\ th'[Consumer].pc # "c_store" =>
             \A T \in CommandTimes' : last_active_command_ts' >= T
       /\ SleepTransition =>
             \A T \in CommandTimes : now - T >= SLEEP_TIMEOUT]_vars

\* Activation thread t carries leftover words of its wake utterance that it
\* has not yet handed to _process_command: it is before the entry block, in
\* it, or speaking the acknowledgment.
LeftoverPending(t) ==
    /\ th[t].cmd # "none"
    /\ \/ th[t].pc \in {"a_lock", "a_ts", "a_store"}
       \/ th[t].pc \in {"sp_acq", "sp_play"} /\ th[t].ret = "p_start"

\* C22: the words after the wake phrase of an accepted wake utterance are
\* the first command of the session: while they wait to be dispatched, the
\* consumer dispatches no command of a later utterance.
C22_LeftoverFirst ==
    \A t \in ActThreads : LeftoverPending(t) => th[Consumer].pc # "p_start"

\* An accepted wake detection is on its way to a session: the consumer is
\* in _wake_from_sleep or about to start the thread, or an activation
\* thread stands before the entry block.
WakePending ==
    \/ th[Consumer].pc \in {"ws_set", "c_spawn"}
    \/ th[Consumer].pc \in {"sp_acq", "sp_play"} /\ th[Consumer].ret = "ws_set"
    \/ \E t \in ActThreads : th[t].pc = "a_lock"

\* Activation thread t is speaking the acknowledgment or about to.
Acknowledging(t) ==
    /\ th[t].pc \in {"sp_acq", "sp_play"}
    /\ th[t].ret = IF th[t].cmd = "none" THEN "a_wait" ELSE "p_start"

\* C23: a wake phrase recognized while idle and accepted by the debouncer
\* leads to an active session, and exactly one acknowledgment is emitted
\* for the activation: the thread that turns active_mode from false to true
\* goes on to speak the acknowledgment, and no thread speaks one without
\* having done so.
C23_WakeActivates ==
    /\ WakePending ~> active_mode
    /\ \A t \in ActThreads : (th[t].pc = "a_ts") ~> Acknowledging(t)
    /\ [][\A t \in ActThreads :
            /\ (th'[t].pc = "a_ts" /\ th[t].pc # "a_ts") =>
                   th[t].pc = "a_lock" /\ ~active_mode /\ active_mode'
            /\ (Acknowledging(t)' /\ ~Acknowledging(t)) =>
                   th[t].pc \in {"a_ts", "a_store"}]_vars

\* A session with its acknowledgment being played.
C23_Acknowledged ==
    \E t \in ActThreads :
        /\ th[t].pc = "sp_play"
        /\ Acknowledging(t)
        /\ active_mode

\* The consumer finishes recognizing a wake phrase less than the debounce
\* interval after an accepted detection, in wake mode or in a session.
SecondDetection ==
    /\ th[Consumer].pc = "c_rec"
    /\ th[Consumer].audio.text.wake
    /\ lastAccept # None
    /\ now - lastAccept < WAKE_DEBOUNCE_SECONDS
    /\ Len(handled') > Len(handled)
    /\ handled'[Len(handled')].as \notin {"nothing", "blank"}

\* C24: a wake phrase recognized twice within the debounce interval gives
\* one activation: whether or not the first activation thread has set
\* active_mode, the second detection starts no activation thread, leaves
\* active_mode and the debounce stamp as they are and emits no
\* acknowledgment; and only a thread started for an accepted detection
\* turns active_mode from false to true.
C24_OneActivation ==
    [][/\ SecondDetection =>
             /\ \A t \in ActThreads : th'[t] = th[t]
             /\ UNCHANGED <<active_mode, last_wake_ts, lastAccept>>
             /\ th'[Consumer].pc \in {"c_get", "c_store", "p_start"}
       /\ (~active_mode /\ active_mode') =>
             \E t \in ActThreads : th[t].pc = "a_lock" /\ th'[t].pc = "a_ts"
       /\ \A t \in ActThreads :
             (th[t].pc = "free" /\ th'[t].pc # "free") =>
                 /\ th'[t].pc = "a_lock"
                 /\ lastAccept' = now \/ th[Consumer].pc = "c_spawn"]_vars

\* The second detection came when the first activation thread had set
\* active_mode: "hey jarvis" was accepted, and "hey jarvis" again, less than
\* the interval later, is in _process_command as a command of the session.
C24_SecondInSession ==
    /\ Len(handled) = 2
    /\ handled[1].as = "wake"
    /\ handled[2].as = "command"
    /\ handled[2].at - handled[1].at < WAKE_DEBOUNCE_SECONDS
    /\ th[Consumer].pc = "p_start"
    /\ th[Consumer].cmd = "ask"

\* The consumer finishes recognizing a wake phrase while a session is open.
DetectionInSession ==
    /\ th[Consumer].pc = "c_rec"
    /\ th[Consumer].audio.text.wake
    /\ active_mode
    /\ Len(handled') > Len(handled)
    /\ handled'[Len(handled')].as \notin {"nothing", "blank"}

\* C25: a wake detection in an active session is a no-op: it changes
\* neither active_mode nor MODE nor the session timestamp, emits no
\* acknowledgment and dispatches nothing: the consumer is back at its queue
\* wait, with no write of the timestamp pending, and no thread is started.
C25_WakeInSessionNoOp ==
    [][DetectionInSession =>
         /\ UNCHANGED <<active_mode, MODE, last_active_command_ts>>
         /\ th'[Consumer].pc = "c_get"
         /\ \A t \in ActThreads \cup AiThreads : th'[t] = th[t]]_vars

\* The session state or an interaction timestamp is written.
SessionWrite ==
    \/ active_mode' # active_mode
    \/ MODE' # MODE
    \/ LAST_INTERACTION' # LAST_INTERACTION
    \/ last_active_command_ts' # last_active_command_ts

\* C26: the session state (active_mode, state.MODE) and the interaction
\* timestamps (state.LAST_INTERACTION, _last_active_command_ts) are accessed
\* only under one lock: every step that writes one of them is a step of the
\* thread that holds _active_mode_lock.
C26_OneLock ==
    [][SessionWrite =>
         \E t \in Threads :
             /\ th'[t] # th[t]
             /\ active_mode_lock = t \/ active_mode_lock' = t]_vars

C28_ThresholdFollowsFlag ==
    energy_threshold = IF SYSTEM_SPEAKING THEN 3 * ENERGY_THRESHOLD ELSE ENERGY_THRESHOLD

\* Activation thread t is past the guard of _enter_active_command_mode on
\* the path that opens a session, and has not finished its exit block.
OwnsSession(t) ==
    /\ th[t].pc \notin {"free", "a_lock", "a_unlock"}
    /\ active_mode_lock = t => th[t].pc = "a_ts"

\* C29: at most one activation thread at a time owns the session.
C29_OneOwner ==
    \A t, u \in ActThreads : OwnsSession(t) /\ OwnsSession(u) => t = u

\* C30: state.MODE changes to "sleep" only in a state in which
\* LAST_INTERACTION is at least SLEEP_TIMEOUT old: an interaction between
\* the monitor's read of the timestamp and its call of the sleep procedure
\* prevents the transition.
C30_SleepOnlyWhenIdle ==
    [][SleepTransition =>
         /\ LAST_INTERACTION # None
         /\ now - LAST_INTERACTION >= SLEEP_TIMEOUT]_vars

\* C31: in a session whose inactivity timeout has passed, as long as no
\* command is recognized (which would refresh the session stamp),
\* active_mode eventually becomes false, also when sound keeps arriving and
\* the consumer's queue wait never times out.
C31_InactivityEndsSession == SessionExpired ~> ~SessionExpired

\* The threads that are playing speech inside JarvisVoice.speak.
Playing == {t \in Threads : th[t].pc = "sp_play"}

\* C32: whenever a thread is playing speech inside JarvisVoice.speak,
\* SYSTEM_SPEAKING is true and that thread holds the voice lock, however many
\* threads call speak at once: no speaker clears the flag during another
\* speaker's playback, and at most one playback is in progress.
C32_FlagWhilePlaying ==
    /\ \A t \in Playing : SYSTEM_SPEAKING /\ voice_lock = t
    /\ Cardinality(Playing) <= 1

\* One thread is playing while two others are waiting for the voice lock.
C32_TwoWaiting ==
    /\ Playing # {}
    /\ Cardinality({t \in Threads : th[t].pc = "sp_acq"}) >= 2

\* C33: _recognize_from_audio never raises and calls the backend at most
\* twice; when it has returned: without a buffer it called nothing and
\* returned none; every call but the last ended with an exception other than
\* no-match and service error, so these two are never retried; a last call
\* that ended with any exception gives none; and a first call that ended
\* with another exception was followed by exactly one more call.
C33_RecognizeTotal ==
    /\ rec.pc # "raised"
    /\ Len(rec.log) <= 2
    /\ rec.pc = "returned" =>
         /\ rec.audio = NoAudio => rec.log = <<>> /\ rec.result = "none"
         /\ rec.audio # NoAudio => rec.log # <<>>
         /\ \A i \in 1..(Len(rec.log) - 1) : rec.log[i] = "OtherError"
         /\ rec.log # <<>> =>
              /\ rec.log[Len(rec.log)] \in BackendErrors => rec.result = "none"
              /\ rec.log[1] = "OtherError" => Len(rec.log) = 2

\* The backend failed twice with another exception and the wrapper returned none.
C33_RetriedOnce ==
    /\ rec.pc = "returned"
    /\ rec.log = <<"OtherError", "OtherError">>
    /\ rec.result = "none"

\* C35: when the removal has run over an accepted utterance made of a wake
\* phrase p of the configured set and the words c after it (none, or a
\* command), the text left is exactly c; so for an utterance that is exactly
\* a wake phrase nothing is left and no initial command is dispatched.
C35_LeftoverIsCommand ==
    \A p \in WakePhrases : \A c \in {<<>>, SpokenCommand} :
       (wk.pc \in {"start", "dispatched", "waiting"} /\ wk.heard = Phrase(p \o c))
          => /\ wk.cleaned = Phrase(c)
             /\ c = <<>> => wk.pc # "dispatched"

\* The listener is stopped and everything it ran has ended.
Terminated ==
    /\ th[Consumer].pc = "done"
    /\ \A t \in ActThreads : th[t].pc = "free"
    /\ ~active_mode
    /\ ~listening

\* C34: after stop() the consumer loop terminates, every activation thread
\* leaves its wait loop and terminates, and active_mode and listening end up
\* false and stay so; a consumer loop that has seen running = False takes no
\* further step and no utterance leaves the queue after that.
C34_StopTerminates ==
    /\ ~running ~> Terminated
    /\ [][~running /\ Terminated => Terminated']_vars
    /\ [][th[Consumer].pc = "done" =>
            /\ th'[Consumer] = th[Consumer]
            /\ audio_queue' = audio_queue]_vars

\* stop() was called during a session (the session stamp is younger than the
\* inactivity timeout), and everything has ended.
C34_StoppedInSession ==
    /\ ~running
    /\ Terminated
    /\ last_active_command_ts > 0
    /\ now - last_active_command_ts <= ACTIVE_INACTIVITY_DEFAULT

====
